---- MODULE Spec2Model ----
(***************************************************************************)
(* A model of RufusClient (src/src/scraper.py): the crawl controller       *)
(* (scrape / extract_data recursion, visited_urls, base_url, clear_cache)  *)
(* and the relevance engine (is_relevant_to_prompt, process_results).      *)
(*                                                                         *)
(* Strings are sequences of one-character strings, so that lengths,       *)
(* tokens and substrings are computed as the code computes them.           *)
(* A URL is the triple urlparse() splits it into: scheme, netloc, path.    *)
(* The web site, the browser and its failures are the environment: a page  *)
(* is revealed the first time it is rendered and stays as revealed.        *)
(***************************************************************************)
EXTENDS Integers, Sequences, FiniteSets, TLC

(***************************************************************************)
(* Bounds of the model.                                                    *)
(***************************************************************************)
MaxCalls == 2
MaxDepth == 2

(***************************************************************************)
(* Program constants.                                                      *)
(***************************************************************************)
MinContentLen == 20
ThresholdPct == 10
MinKeywordLen == 2
MinPartialLen == 3

(***************************************************************************)
(* Generic helpers on sequences.                                           *)
(***************************************************************************)
Range(s) == {s[i] : i \in 1..Len(s)}

RECURSIVE SelectSeqIdx(_, _, _)
SelectSeqIdx(s, keep, i) ==
    IF i > Len(s) THEN <<>>
    ELSE IF i \in keep THEN <<s[i]>> \o SelectSeqIdx(s, keep, i + 1)
         ELSE SelectSeqIdx(s, keep, i + 1)

RECURSIVE Gcd(_, _)
Gcd(a, b) == IF b = 0 THEN a ELSE Gcd(b, a % b)

\* The float a / b of two small non-negative integers, b > 0, as the reduced
\* fraction <<num, den>>: two such quotients are the same float exactly when
\* they are the same fraction.
Quotient(a, b) == <<a \div Gcd(a, b), b \div Gcd(a, b)>>

(***************************************************************************)
(* URLs.                                                                   *)
(***************************************************************************)
Url(s, n, p) == [scheme |-> s, netloc |-> n, path |-> p]

EmptyUrl == Url("", "", "")
UrlA0 == Url("https", "a", "/")
UrlA1 == Url("https", "a", "/p1")
UrlA2 == Url("https", "a", "/p2")
UrlA3 == Url("https", "a", "/p3")
UrlB0 == Url("https", "b", "/")
RelP1 == Url("", "", "/p1")

\* url.startswith(('http://', 'https://'))
StartsWithHttp(url) == url.scheme \in {"http", "https"}

\* urllib.parse.urljoin(base, url) for a reference without scheme and netloc
\* whose path starts with "/" (the relative references of the model); base is
\* <<>> (None) or <<b>>.
urljoin(base, url) ==
    IF base = <<>> \/ base[1] = EmptyUrl THEN url
    ELSE IF url = EmptyUrl THEN base[1]
    ELSE IF url.scheme # "" /\ url.scheme # base[1].scheme THEN url
    ELSE IF url.netloc # "" THEN Url(base[1].scheme, url.netloc, url.path)
    ELSE Url(base[1].scheme, base[1].netloc, url.path)

\* normalize_url: <<>> is None, <<u>> the normalized URL.
normalize_url(base, url) ==
    IF url = EmptyUrl THEN <<>>
    ELSE IF ~StartsWithHttp(url) THEN <<urljoin(base, url)>>
    ELSE <<url>>

is_valid_url(url) == url.scheme # "" /\ url.netloc # ""

\* urlparse(None).netloc is b'' and urlparse("").netloc is '': either one
\* differs from every non-empty netloc, and b'' differs from '' as well.
is_same_domain(base, url) ==
    IF base = <<>> THEN FALSE
    ELSE url.netloc = base[1].netloc

(***************************************************************************)
(* Text.                                                                   *)
(***************************************************************************)
T_rel == <<"D","a","t","a"," ","a","n","a","l","y","t","i","c","s",","," ","a","n","d"," ","i","n","s","i","g","h","t","s">>
T_irr == <<"p","r","i","c","i","n","g"," ","a","n","d"," ","p","r","o","d","u","c","t","s"," ","t","o","d","a","y">>
T_short == <<"p","r","i","c","i","n","g"," ","a","n","d"," ","p","r","o","d","u","c","t","s">>
T_21 == <<"a","n","a","l","y","t","i","c"," ","a","n","d"," ","p","r","o","d","u","c","t","s">>
PromptData == <<"d","a","t","a"," ","a","n","a","l","y","t","i","c","s">>
NoPrompt == <<>>

UpperCase == {"D"}
Digits == {"0", "1", "2", "3", "4", "5", "6", "7", "8", "9"}
Letters == {"a", "c", "d", "g", "h", "i", "l", "n", "o", "p", "r", "s", "t", "u", "y"}
ToLower(c) == IF c = "D" THEN "d" ELSE c
\* \w of the regular expressions
IsWordChar(c) == c \in Letters \cup UpperCase \cup Digits \cup {"_"}

RECURSIVE CollapseSpaces(_)
\* re.sub(r'\s+', ' ', text)
CollapseSpaces(s) ==
    IF Len(s) < 2 THEN s
    ELSE IF s[1] = " " /\ s[2] = " " THEN CollapseSpaces(Tail(s))
    ELSE <<s[1]>> \o CollapseSpaces(Tail(s))

RECURSIVE Strip(_)
Strip(s) ==
    IF s = <<>> THEN s
    ELSE IF s[1] = " " THEN Strip(Tail(s))
    ELSE IF s[Len(s)] = " " THEN Strip(SubSeq(s, 1, Len(s) - 1))
    ELSE s

preprocess_text(text) ==
    LET lowered == [i \in 1..Len(text) |-> ToLower(text[i])]
        cleaned == [i \in 1..Len(text) |->
                      IF IsWordChar(lowered[i]) \/ lowered[i] = " "
                      THEN lowered[i] ELSE " "]
    IN Strip(CollapseSpaces(cleaned))

RECURSIVE Tokens(_, _)
\* The maximal runs of non-space characters of s, in order; cur is the run
\* being read.
Tokens(s, cur) ==
    IF s = <<>> THEN (IF cur = <<>> THEN <<>> ELSE <<cur>>)
    ELSE IF s[1] = " "
         THEN (IF cur = <<>> THEN <<>> ELSE <<cur>>) \o Tokens(Tail(s), <<>>)
         ELSE Tokens(Tail(s), Append(cur, s[1]))

\* nltk word_tokenize on preprocessed text (words and digits separated by
\* single spaces): the words.
word_tokenize(text) == Tokens(text, <<>>)

W_and == <<"a","n","d">>
W_call == <<"c","a","l","l">>
\* The words of stopwords.words('english') that the texts of the model use.
stop_words == {W_and}
\* The same for the vectorizer's stop_words='english' list, which also holds
\* 'call'.
sklearn_stop_words == {W_and, W_call}

isnumeric(w) == w # <<>> /\ \A i \in 1..Len(w) : w[i] \in Digits

extract_keywords(text) ==
    LET tokens == word_tokenize([i \in 1..Len(text) |-> ToLower(text[i])])
    IN {w \in Range(tokens) :
          w \notin stop_words /\ Len(w) > MinKeywordLen /\ ~isnumeric(w)}

\* p_word in t_word
IsSubstring(p, t) ==
    \E i \in 0..(Len(t) - Len(p)) : SubSeq(t, i + 1, i + Len(p)) = p

(***************************************************************************)
(* The relevance scorer.                                                   *)
(***************************************************************************)
RECURSIVE SumOver(_, _)
\* The sum of f[x] over the finite set S.
SumOver(S, f) ==
    IF S = {} THEN 0
    ELSE LET x == CHOOSE y \in S : TRUE
         IN f[x] + SumOver(S \ {x}, f)

Count(w, tokens) == Cardinality({i \in 1..Len(tokens) : tokens[i] = w})

\* The terms TfidfVectorizer(stop_words='english') counts in a document:
\* lowercased, token_pattern \b\w\w+\b, stop words dropped.
vectorizer_terms(doc) ==
    LET tokens == word_tokenize(preprocess_text(doc))
    IN SelectSeq(tokens, LAMBDA w : Len(w) >= 2 /\ w \notin sklearn_stop_words)

\* The square of the smoothed idf of a term of a two-document corpus, in
\* hundredths: (ln(3 / (1 + df)) + 1)^2 is 1 for df = 2 and 1.9754 for df = 1.
IdfSq(df) == IF df = 2 THEN 100 ELSE 198

\* Method 1 (lines 116-122): "raise" when fit_transform raises (empty
\* vocabulary), "hit" when similarity >= threshold, "miss" otherwise. With
\* dot the inner product and np, nt the norms of the tf-idf vectors,
\* dot / (np * nt) >= ThresholdPct / 100 is compared after squaring.
tfidf_tier(text, prompt) ==
    LET p == vectorizer_terms(prompt)
        t == vectorizer_terms(text)
        vocabulary == Range(p) \cup Range(t)
        shared == Range(p) \cap Range(t)
        dot == 100 * SumOver(shared, [w \in shared |-> Count(w, p) * Count(w, t)])
        Norm2(d) == SumOver(Range(d), [w \in Range(d) |->
                       Count(w, d) * Count(w, d)
                         * IdfSq(IF w \in shared THEN 2 ELSE 1)])
    IN IF vocabulary = {} THEN "raise"
       ELSE IF dot > 0 /\ 10000 * dot * dot
                            >= ThresholdPct * ThresholdPct * Norm2(p) * Norm2(t)
            THEN "hit"
       ELSE "miss"

\* Method 2 (lines 125-130)
keyword_tier(text, prompt) ==
    extract_keywords(prompt) \cap extract_keywords(text) # {}

\* A partial match that looks for the prompt's words in the text's only.
partial_tier_one_way(text, prompt) ==
    \E p_word \in extract_keywords(prompt) : \E t_word \in extract_keywords(text) :
        Len(p_word) > MinPartialLen /\ IsSubstring(p_word, t_word)

\* Method 3 (lines 133-137)
partial_tier(text, prompt) ==
    \E p_word \in extract_keywords(prompt) : \E t_word \in extract_keywords(text) :
        \/ Len(p_word) > MinPartialLen /\ IsSubstring(p_word, t_word)
        \/ Len(t_word) > MinPartialLen /\ IsSubstring(t_word, p_word)

\* Lines 124-139: what the two keyword methods decide together.
lexical_tiers(text, prompt) == keyword_tier(text, prompt) \/ partial_tier(text, prompt)

\* A scorer whose handler gives up when fit_transform raises.
is_relevant_raise_is_false(text, prompt) ==
    IF text = <<>> \/ prompt = <<>> THEN FALSE
    ELSE LET t == preprocess_text(text)
             p == preprocess_text(prompt)
         IN IF t = <<>> \/ p = <<>> THEN FALSE
            ELSE IF tfidf_tier(t, p) = "raise" THEN FALSE
            ELSE IF tfidf_tier(t, p) = "hit" THEN TRUE
            ELSE lexical_tiers(t, p)

is_relevant_to_prompt(text, prompt) ==
    IF text = <<>> \/ prompt = <<>> THEN FALSE
    ELSE LET t == preprocess_text(text)
             p == preprocess_text(prompt)
         IN IF t = <<>> \/ p = <<>> THEN FALSE
            ELSE IF tfidf_tier(t, p) = "hit" THEN TRUE
            ELSE IF keyword_tier(t, p) THEN TRUE
            ELSE partial_tier(t, p)

(***************************************************************************)
(* Page records and the result processor.                                 *)
(***************************************************************************)
\* The texts the pages of the model carry.
PageTexts == {T_rel, T_irr, T_short, T_21}

\* is_relevant_to_prompt is a pure function of its two arguments: its values
\* on the texts of the pages, computed once.
Relevance ==
    [text \in PageTexts, prompt \in {PromptData} |->
        is_relevant_to_prompt(text, prompt)]

\* A record without the key 'relevance_score' carries NoScore.
NoScore == <<>>

PageRecord(url, title, content, score) ==
    [url |-> url, title |-> title, content |-> content, relevance_score |-> score]

\* A loop that appends every page, relevant or not.
process_one_keeps_all(result, prompt) ==
    LET relevant == {i \in 1..Len(result.content) :
                        Relevance[result.content[i], prompt]}
    IN <<PageRecord(result.url, result.title,
                    SelectSeqIdx(result.content, relevant, 1),
                    IF relevant = {} THEN <<0, 1>>
                    ELSE Quotient(Cardinality(relevant), Len(result.content)))>>

\* The body of the loop of process_results for one result (lines 181-198):
\* <<>> when the page is dropped, <<record>> when it is kept.
process_one(result, prompt) ==
    LET relevant == {i \in 1..Len(result.content) :
                        Relevance[result.content[i], prompt]}
        relevant_content_count == Cardinality(relevant)
    IN IF relevant_content_count > 0
       THEN <<PageRecord(result.url, result.title,
                         SelectSeqIdx(result.content, relevant, 1),
                         Quotient(relevant_content_count, Len(result.content)))>>
       ELSE <<>>

RECURSIVE process_loop(_, _)
process_loop(results, prompt) ==
    IF results = <<>> THEN <<>>
    ELSE process_one(Head(results), prompt) \o process_loop(Tail(results), prompt)

process_results(results, prompt) ==
    IF prompt = <<>> THEN results
    ELSE process_loop(results, prompt)

(***************************************************************************)
(* The web site: what the render collaborator and the parser return.       *)
(***************************************************************************)
Netlocs == {"a", "b"}
Paths == {"/", "/p1", "/p2", "/p3"}
\* Every URL of the model that is_valid_url accepts.
PageUrls == {Url("https", n, p) : n \in Netlocs, p \in Paths}

\* A site: for every URL the hrefs of the <a> elements of its page in
\* document order, the URL driver.current_url reports after driver.get (the
\* URL itself unless the server redirects), and the URLs whose render raises.
Site(links, redirect, down) == [links |-> links, redirect |-> redirect, down |-> down]

NoLinks == [u \in PageUrls |-> IF u = UrlB0 THEN <<RelP1>> ELSE <<>>]
NoRedirect == [u \in PageUrls |-> u]

\* A chain with a relative and a cross-origin link on the seed.
LinksChain ==
    [NoLinks EXCEPT ![UrlA0] = <<RelP1, UrlB0>>, ![UrlA1] = <<UrlB0, UrlA2>>,
                    ![UrlA2] = <<UrlA3>>]
\* A page reached directly and through its sibling, a link back to the seed,
\* a link that occurs twice.
LinksDiamond ==
    [NoLinks EXCEPT ![UrlA0] = <<RelP1, UrlA2>>, ![UrlA1] = <<UrlA0, UrlA2, UrlA2>>,
                    ![UrlA2] = <<UrlA3>>]
\* Two siblings, the first of which the server redirects to the second.
LinksSiblings ==
    [NoLinks EXCEPT ![UrlA0] = <<UrlA2, RelP1>>, ![UrlA1] = <<UrlA3, UrlB0>>]
RedirectP2 == [NoRedirect EXCEPT ![UrlA2] = UrlA1]

DownSets == {{}, {UrlA1}, {UrlA2}}
Sites ==
    {Site(LinksChain, NoRedirect, d) : d \in DownSets}
      \cup {Site(LinksDiamond, NoRedirect, d) : d \in DownSets}
      \cup {Site(LinksSiblings, RedirectP2, d) : d \in DownSets}

Element(tag, text) == [tag |-> tag, text |-> text]

\* <title> of the page at a URL ('' when the page has none).
PageTitle(url) ==
    IF url.netloc = "b" THEN ""
    ELSE IF url.path = "/" THEN "Home"
    ELSE IF url.path = "/p1" THEN "About"
    ELSE IF url.path = "/p2" THEN "Pricing"
    ELSE "Data"

\* The elements of the page at a URL, in document order.
PageElements(url) ==
    IF url.netloc = "b" THEN <<Element("p", T_short)>>
    ELSE IF url.path = "/" THEN
        <<Element("h1", T_short), Element("div", T_irr), Element("p", T_rel)>>
    ELSE IF url.path = "/p1" THEN
        <<Element("p", T_irr), Element("h2", T_21), Element("p", T_rel),
          Element("span", T_rel)>>
    ELSE IF url.path = "/p2" THEN <<Element("p", T_irr)>>
    ELSE <<Element("table", T_21)>>

Html(url, links) ==
    [title |-> PageTitle(url), elements |-> PageElements(url), links |-> links]

(***************************************************************************)
(* extract_data, lines 215-248: the page's own record.                     *)
(***************************************************************************)
\* content_elements, flattened in the order the loops visit the tags
ContentTags == <<"p", "div", "section", "article",
                 "h1", "h2", "h3", "h4", "h5", "h6",
                 "ul", "ol", "table">>

\* lines 236-239 for one tag: find_all(tag) in document order
\* A filter that keeps a text of exactly MinContentLen characters.
TextsOfTag_at_least(elements, tag) ==
    LET found == SelectSeq(elements, LAMBDA e : e.tag = tag)
        texts == [i \in 1..Len(found) |-> Strip(found[i].text)]
    IN SelectSeq(texts, LAMBDA text : text # <<>> /\ Len(text) >= MinContentLen)

TextsOfTag(elements, tag) ==
    LET found == SelectSeq(elements, LAMBDA e : e.tag = tag)
        texts == [i \in 1..Len(found) |-> Strip(found[i].text)]
    IN SelectSeq(texts, LAMBDA text : text # <<>> /\ Len(text) > MinContentLen)

RECURSIVE page_content(_, _)
page_content(elements, k) ==
    IF k > Len(ContentTags) THEN <<>>
    ELSE TextsOfTag(elements, ContentTags[k]) \o page_content(elements, k + 1)

own_record(html, current_url) ==
    PageRecord(current_url, html.title, page_content(html.elements, 1), NoScore)

(***************************************************************************)
(* State.                                                                  *)
(***************************************************************************)
VARIABLES
    visited_urls,   \* self.visited_urls
    base_url,       \* self.base_url: <<>> is None, <<u>> a URL
    stack,          \* the active scrape calls, outermost first
    site,           \* the web site the browser reaches
    renders,        \* history: every driver.get, in order
    calls,          \* history: every top-level scrape call, in order
    last_filter,    \* history: the last application of process_results
    session,        \* history: how many times clear_cache has reset the cache
    entries,        \* history: every call of scrape, the recursive ones too
    probe,          \* a call of one of the pure methods: arguments and result
    workers,        \* two threads calling scrape on one client
    drivers         \* the browsers webdriver.Chrome has started

vars == <<visited_urls, base_url, stack, site, renders, calls, last_filter,
          session, entries, probe, workers, drivers>>

\* What the crawl of a single thread leaves alone.
aux == <<probe, workers>>

Prompts == {NoPrompt, PromptData}

\* What a client passes to scrape: the seed at every depth, with and without
\* a prompt; a relative URL and a URL of another site; the empty URL and an
\* exhausted depth.
Requests ==
    ({UrlA0} \X Prompts \X (0..MaxDepth))
      \cup ({RelP1, UrlB0} \X Prompts \X {1})
      \cup ({EmptyUrl, UrlA0} \X {NoPrompt} \X {0 - 1})

\* The browsers of the process: open is the number of driver instances
\* started and not quit, peak the largest number open at one time so far.
NoDrivers == [open |-> 0, peak |-> 0]

\* line 297: webdriver.Chrome(...) starts a browser
driver_opened(d) ==
    [open |-> d.open + 1,
     peak |-> IF d.open + 1 > d.peak THEN d.open + 1 ELSE d.peak]

\* line 310: driver.quit()
driver_quit(d) == [d EXCEPT !.open = @ - 1]

\* No pure method is being called.
NoProbe ==
    [op |-> "none", text |-> <<>>, prompt |-> <<>>, elements |-> <<>>,
     done |-> TRUE, result |-> <<>>]

Init ==
    /\ visited_urls = {}
    /\ base_url = <<>>
    /\ stack = <<>>
    /\ site \in Sites
    /\ renders = <<>>
    /\ calls = <<>>
    /\ last_filter = <<>>
    /\ session = 0
    /\ entries = <<>>
    /\ probe = NoProbe
    /\ workers = <<>>
    /\ drivers = NoDrivers

(***************************************************************************)
(* scrape, lines 278-293: up to the point where the browser is started.    *)
(***************************************************************************)
\* "not self.base_url"
Unset(base) == base = <<>> \/ base[1] = EmptyUrl

\* An entry that takes every call's URL as the base URL.
entry_base_always(base, url) == <<url>>

\* lines 279-280
entry_base(base, url) == IF Unset(base) THEN <<url>> ELSE base

\* lines 283-290: "invalid", "skip" (visited or depth exhausted) or "go"
entry_outcome(norm, visited, depth) ==
    IF norm = <<>> \/ ~is_valid_url(norm[1]) THEN "invalid"
    ELSE IF norm[1] \in visited \/ depth < 0 THEN "skip"
    ELSE "go"

\* A scrape that forgets to record the URL.
mark_visited_forgets(visited, url) == visited

\* line 292
mark_visited(visited, url) == visited \cup {url}

\* A call of scrape that has passed line 292. parent, link and hops are
\* history: the render of the page whose link is being followed (0 for a
\* client's call), the position of that link, the number of links followed
\* from the client's URL.
Frame(url, prompt, depth, rid_parent, link, hops) ==
    [url |-> url, prompt |-> prompt, depth |-> depth, pc |-> "render",
     current_url |-> EmptyUrl, html |-> Html(EmptyUrl, <<>>), data |-> <<>>,
     i |-> 0, rid |-> 0, parent |-> rid_parent, link |-> link, hops |-> hops]

Top == stack[Len(stack)]

\* An entry that records the URL before it validates it.
Enter_marks_before_validating(url, prompt, depth, rid_parent, link, hops) ==
    LET base == entry_base(base_url, url)
        norm == normalize_url(base, url)
        outcome == entry_outcome(norm, visited_urls, depth)
    IN [base |-> base,
        outcome |-> outcome,
        visited |-> IF norm # <<>> THEN mark_visited(visited_urls, norm[1])
                    ELSE visited_urls,
        frame |-> IF outcome = "go"
                  THEN <<Frame(norm[1], prompt, depth, rid_parent, link, hops)>>
                  ELSE <<>>]

\* What scrape(url, prompt, depth) does to the session before it renders:
\* the new base_url, the new visited_urls, and the frame it goes on with if any.
Enter(url, prompt, depth, rid_parent, link, hops) ==
    LET base == entry_base(base_url, url)
        norm == normalize_url(base, url)
        outcome == entry_outcome(norm, visited_urls, depth)
    IN [base |-> base,
        outcome |-> outcome,
        visited |-> IF outcome = "go" THEN mark_visited(visited_urls, norm[1])
                    ELSE visited_urls,
        frame |-> IF outcome = "go"
                  THEN <<Frame(norm[1], prompt, depth, rid_parent, link, hops)>>
                  ELSE <<>>]

(***************************************************************************)
(* Returning from a scrape call.                                           *)
(***************************************************************************)
\* The loop of extract_data moves on to the next link, or leaves the loop.
NextLink(fr) ==
    IF fr.i + 1 > Len(fr.html.links)
    THEN [fr EXCEPT !.i = fr.i + 1, !.pc = "return"]
    ELSE [fr EXCEPT !.i = fr.i + 1]

\* Nested results put in front of what the branch has gathered.
extend_in_front(data, nested_results) == nested_results \o data

\* line 258: data.extend(nested_results)
extend(data, nested_results) == data \o nested_results

\* A loop that stops at the first link whose scrape returns nothing.
after_nested_stops(fr, nested_results) ==
    IF nested_results = <<>> THEN [fr EXCEPT !.i = fr.i + 1, !.pc = "return"]
    ELSE NextLink([fr EXCEPT !.data = @ \o nested_results])

\* lines 257-258 and the loop's next round
after_nested(fr, nested_results) ==
    NextLink([fr EXCEPT !.data = extend(@, nested_results)])

\* The innermost call returns results: to the top-level caller, or to the
\* loop of the extract_data that called it (lines 257-258).
Deliver(results) ==
    LET rest == SubSeq(stack, 1, Len(stack) - 1)
    IN IF rest = <<>>
       THEN /\ stack' = <<>>
            /\ calls' = [calls EXCEPT ![Len(calls)].done = TRUE,
                                      ![Len(calls)].result = results]
       ELSE /\ stack' = [rest EXCEPT ![Len(rest)] = after_nested(@, results)]
            /\ UNCHANGED calls

(***************************************************************************)
(* The operations.                                                         *)
(***************************************************************************)
\* history: scrape was called with these arguments and left its entry
\* (lines 278-292) with this outcome
Entry(url, depth, outcome, nested) ==
    [url |-> url, depth |-> depth, outcome |-> outcome, nested |-> nested]

\* A client calls scrape(url, prompt, depth): lines 278-293.
Scrape(url, prompt, depth) ==
    /\ stack = <<>>
    /\ Len(calls) < MaxCalls
    /\ LET e == Enter(url, prompt, depth, 0, 0, 0)
       IN /\ base_url' = e.base
          /\ visited_urls' = e.visited
          /\ stack' = e.frame
          /\ calls' = Append(calls,
                [url |-> url, prompt |-> prompt, depth |-> depth,
                 fresh |-> (visited_urls = {} /\ base_url = <<>>),
                 session |-> session, outcome |-> e.outcome,
                 first |-> Len(renders) + 1,
                 done |-> (e.outcome # "go"), result |-> <<>>])
          /\ entries' = Append(entries, Entry(url, depth, e.outcome, FALSE))
    /\ UNCHANGED <<site, renders, last_filter, session, aux, drivers>>

RenderEntry(fr, ok, final) ==
    [url |-> fr.url, ok |-> ok, final |-> final, parent |-> fr.parent,
     link |-> fr.link, hops |-> fr.hops, depth |-> fr.depth,
     call |-> Len(calls), session |-> session, base |-> base_url,
     marked |-> (fr.url \in visited_urls)]

\* lines 295-310, the browser returns the page
RenderOk ==
    /\ stack # <<>>
    /\ Top.pc = "render"
    /\ Top.url \notin site.down
    /\ LET final == site.redirect[Top.url]
       IN /\ renders' = Append(renders, RenderEntry(Top, TRUE, final))
          /\ drivers' = driver_quit(driver_opened(drivers))
          /\ stack' = [stack EXCEPT ![Len(stack)] =
                         [@ EXCEPT !.pc = "extract",
                                   !.current_url = final,
                                   !.html = Html(final, site.links[final]),
                                   !.rid = Len(renders) + 1]]
    /\ UNCHANGED <<visited_urls, base_url, site, calls, last_filter, session,
                   entries, aux>>

\* lines 295-300 and 321-323: the browser raises, scrape returns []
RenderFail ==
    /\ stack # <<>>
    /\ Top.pc = "render"
    /\ Top.url \in site.down
    /\ renders' = Append(renders, RenderEntry(Top, FALSE, EmptyUrl))
    /\ drivers' = driver_opened(drivers)
    /\ Deliver(<<>>)
    /\ UNCHANGED <<visited_urls, base_url, site, last_filter, session, entries,
                   aux>>

\* extract_data, lines 215-251: the page's own record, then the links if
\* depth > 0
ExtractData ==
    /\ stack # <<>>
    /\ Top.pc = "extract"
    /\ stack' = [stack EXCEPT ![Len(stack)] =
                   [@ EXCEPT !.data = <<own_record(Top.html, Top.current_url)>>,
                             !.i = IF Top.depth > 0 /\ Top.html.links # <<>>
                                   THEN 1 ELSE 0,
                             !.pc = IF Top.depth > 0 /\ Top.html.links # <<>>
                                    THEN "links" ELSE "return"]]
    /\ UNCHANGED <<visited_urls, base_url, site, renders, calls, last_filter,
                   session, entries, aux, drivers>>

\* A loop that follows every link it can normalize.
follows_any(base, href) == normalize_url(base, href) # <<>>

\* lines 254-255
follows(base, href) ==
    LET next_url == normalize_url(base, href)
    IN next_url # <<>> /\ is_same_domain(base, next_url[1])

\* A recursion that passes the depth on unchanged.
child_depth_same(depth) == depth

\* line 257
child_depth(depth) == depth - 1

\* extract_data, lines 253-258, for one link: the link is skipped, or scrape
\* is called on it and returns at once, or goes on to render it
FollowLink ==
    /\ stack # <<>>
    /\ Top.pc = "links"
    /\ LET href == Top.html.links[Top.i]
       IN IF follows(base_url, href)
          THEN LET e == Enter(normalize_url(base_url, href)[1], Top.prompt,
                              child_depth(Top.depth), Top.rid, Top.i, Top.hops + 1)
               IN /\ base_url' = e.base
                  /\ visited_urls' = e.visited
                  /\ stack' = IF e.outcome = "go" THEN stack \o e.frame
                              ELSE [stack EXCEPT ![Len(stack)] = NextLink(@)]
                  /\ entries' = Append(entries,
                        Entry(normalize_url(base_url, href)[1],
                              child_depth(Top.depth), e.outcome, TRUE))
          ELSE /\ stack' = [stack EXCEPT ![Len(stack)] = NextLink(@)]
               /\ UNCHANGED <<visited_urls, base_url, entries>>
    /\ UNCHANGED <<site, renders, calls, last_filter, session, aux, drivers>>

\* lines 260 and 316-319: extract_data returns data, scrape filters it
\* when a prompt is given and returns
\* A scrape that returns what extract_data gathered, prompt or not.
final_results_unfiltered(data, prompt) == data

final_results(data, prompt) ==
    IF prompt # <<>> THEN process_results(data, prompt) ELSE data

Return ==
    /\ stack # <<>>
    /\ Top.pc = "return"
    /\ Deliver(final_results(Top.data, Top.prompt))
    /\ last_filter' = IF Top.prompt # <<>>
                      THEN <<[results |-> Top.data, prompt |-> Top.prompt,
                              processed |-> process_results(Top.data, Top.prompt)]>>
                      ELSE last_filter
    /\ UNCHANGED <<visited_urls, base_url, site, renders, session, entries, aux,
                   drivers>>

\* A clear_cache that leaves the visited URLs in place.
cleared_visited_kept(visited) == visited

\* clear_cache, line 344
cleared_visited(visited) == {}

ClearCache ==
    /\ stack = <<>>
    /\ Len(calls) < MaxCalls
    /\ visited_urls # {} \/ base_url # <<>>
    /\ visited_urls' = cleared_visited(visited_urls)
    /\ base_url' = <<>>
    /\ session' = session + 1
    /\ UNCHANGED <<stack, site, renders, calls, last_filter, entries, aux,
                   drivers>>

Next ==
    \/ \E r \in Requests : Scrape(r[1], r[2], r[3])
    \/ RenderOk
    \/ RenderFail
    \/ ExtractData
    \/ FollowLink
    \/ Return
    \/ ClearCache

Spec == Init /\ [][Next]_vars

\* A running call always takes its next step: the interpreter runs the
\* code of a call to its end.
Step == RenderOk \/ RenderFail \/ ExtractData \/ FollowLink \/ Return

FairSpec == Spec /\ WF_vars(Step)

(***************************************************************************)
(* The pure methods, called on their own.                                  *)
(***************************************************************************)
S_punct == <<",">>
S_insight == <<"i","n","s","i","g","h","t">>
S_insights == <<"i","n","s","i","g","h","t","s">>
S_cat == <<"c","a","t">>
S_cats == <<"c","a","t","s">>
T_19 == SubSeq(T_short, 1, 19)
Pad(text) == <<" ">> \o text \o <<" ", " ">>

\* Texts and prompts: empty, empty once preprocessed, stop words only, one
\* word inside another, and the texts of the pages.
ProbeStrings ==
    {<<>>, S_punct, W_and, W_call, S_insight, S_insights, S_cat, S_cats,
     PromptData, T_rel, T_irr, T_21}

\* Elements with texts around the length limit, bare and padded with
\* whitespace, under a tag that is collected and one that is not.
ProbeElements ==
    {Element(tag, text) :
        tag \in {"p", "table", "span"},
        text \in {<<>>, <<" ", " ">>, T_19, T_short, T_21, T_rel,
                  Pad(T_19), Pad(T_short), Pad(T_21)}}

Probe(op, text, prompt, elements) ==
    [op |-> op, text |-> text, prompt |-> prompt, elements |-> elements,
     done |-> FALSE, result |-> <<>>]

ProbeInit ==
    /\ visited_urls = {}
    /\ base_url = <<>>
    /\ stack = <<>>
    /\ site = Site(NoLinks, NoRedirect, {})
    /\ renders = <<>>
    /\ calls = <<>>
    /\ last_filter = <<>>
    /\ session = 0
    /\ entries = <<>>
    /\ workers = <<>>
    /\ drivers = NoDrivers
    /\ probe \in
          {Probe(op, text, prompt, <<>>) :
              op \in {"is_relevant_to_prompt", "lexical_tiers"},
              text \in ProbeStrings, prompt \in ProbeStrings}
            \cup {Probe("extract_data", <<>>, <<>>, <<e1, e2>>) :
                     e1 \in ProbeElements,
                     e2 \in {Element("p", T_rel), Element("h1", T_short)}}

crawl == <<visited_urls, base_url, stack, site, renders, calls, last_filter,
           session, entries, workers, drivers>>

\* is_relevant_to_prompt(text, prompt), lines 93-139: the value returned and,
\* when both strings survive preprocessing, what each method found.
CallIsRelevant ==
    /\ probe.op = "is_relevant_to_prompt"
    /\ ~probe.done
    /\ LET t == preprocess_text(probe.text)
           p == preprocess_text(probe.prompt)
           reached == t # <<>> /\ p # <<>>
       IN probe' = [probe EXCEPT
            !.done = TRUE,
            !.result = [returned |-> is_relevant_to_prompt(probe.text, probe.prompt),
                        reached |-> reached,
                        tfidf |-> IF reached THEN tfidf_tier(t, p) ELSE "none",
                        keyword |-> reached /\ keyword_tier(t, p),
                        partial |-> reached /\ partial_tier(t, p)]]
    /\ UNCHANGED crawl

\* Lines 124-139 on the preprocessed strings, and on the two exchanged.
CallLexicalTiers ==
    /\ probe.op = "lexical_tiers"
    /\ ~probe.done
    /\ LET t == preprocess_text(probe.text)
           p == preprocess_text(probe.prompt)
       IN probe' = [probe EXCEPT
            !.done = TRUE,
            !.result = [as_given |-> lexical_tiers(t, p),
                        exchanged |-> lexical_tiers(p, t)]]
    /\ UNCHANGED crawl

\* extract_data(html, current_url, depth=0), lines 215-248: the content of
\* the record.
CallExtractData ==
    /\ probe.op = "extract_data"
    /\ ~probe.done
    /\ probe' = [probe EXCEPT
          !.done = TRUE,
          !.result = own_record([title |-> "", elements |-> probe.elements,
                                 links |-> <<>>], UrlA0).content]
    /\ UNCHANGED crawl

ProbeNext == CallIsRelevant \/ CallLexicalTiers \/ CallExtractData

ProbeSpec == ProbeInit /\ [][ProbeNext]_vars

(***************************************************************************)
(* Two threads calling scrape(url, depth=0) on one client. The interpreter *)
(* may switch threads between any two statements, so the check of line 289 *)
(* and the insertion of line 292 are steps of their own. workers.atomic    *)
(* selects the variant in which they are one step.                         *)
(***************************************************************************)
Workers == {1, 2}
WorkerUrls == {UrlA0, UrlA1, RelP1}

WorkersInit(atomic) ==
    [atomic |-> atomic,
     pc |-> [w \in Workers |-> "idle"],
     url |-> [w \in Workers |-> EmptyUrl],
     ncalls |-> [w \in Workers |-> 0],
     returned |-> [w \in Workers |-> <<>>],
     log |-> <<>>]

RaceInit ==
    /\ visited_urls = {}
    /\ base_url = <<>>
    /\ stack = <<>>
    /\ site = Site(NoLinks, NoRedirect, {})
    /\ renders = <<>>
    /\ calls = <<>>
    /\ last_filter = <<>>
    /\ session = 0
    /\ entries = <<>>
    /\ probe = NoProbe
    /\ workers \in {WorkersInit(atomic) : atomic \in BOOLEAN}
    /\ drivers = NoDrivers

idle_crawl == <<stack, site, renders, calls, last_filter, session, entries, probe>>

\* lines 278-286 in thread w
WCall(w, url) ==
    /\ workers.pc[w] = "idle"
    /\ workers.ncalls[w] < MaxCalls
    /\ LET base == entry_base(base_url, url)
           norm == normalize_url(base, url)
           valid == norm # <<>> /\ is_valid_url(norm[1])
       IN /\ base_url' = base
          /\ workers' = [workers EXCEPT
                !.ncalls[w] = @ + 1,
                !.pc[w] = IF valid THEN "check" ELSE "idle",
                !.url[w] = IF valid THEN norm[1] ELSE EmptyUrl,
                !.returned[w] = <<>>]
    /\ UNCHANGED <<visited_urls, idle_crawl, drivers>>

\* lines 289-290 in thread w
WCheck(w) ==
    /\ ~workers.atomic
    /\ workers.pc[w] = "check"
    /\ workers' = [workers EXCEPT
          !.pc[w] = IF entry_outcome(<<workers.url[w]>>, visited_urls, 0) = "go"
                    THEN "mark" ELSE "idle"]
    /\ UNCHANGED <<visited_urls, base_url, idle_crawl, drivers>>

\* line 292 in thread w
WMark(w) ==
    /\ ~workers.atomic
    /\ workers.pc[w] = "mark"
    /\ visited_urls' = mark_visited(visited_urls, workers.url[w])
    /\ workers' = [workers EXCEPT !.pc[w] = "render"]
    /\ UNCHANGED <<base_url, idle_crawl, drivers>>

\* lines 289-292 as one indivisible step
WCheckAndMark(w) ==
    /\ workers.atomic
    /\ workers.pc[w] = "check"
    /\ IF entry_outcome(<<workers.url[w]>>, visited_urls, 0) = "go"
       THEN /\ visited_urls' = mark_visited(visited_urls, workers.url[w])
            /\ workers' = [workers EXCEPT !.pc[w] = "render"]
       ELSE /\ workers' = [workers EXCEPT !.pc[w] = "idle"]
            /\ UNCHANGED visited_urls
    /\ UNCHANGED <<base_url, idle_crawl, drivers>>

\* lines 295-319 in thread w: driver.get, then the page's record
WRender(w) ==
    /\ workers.pc[w] = "render"
    /\ LET final == site.redirect[workers.url[w]]
       IN workers' = [workers EXCEPT
            !.pc[w] = "idle",
            !.log = Append(@, [url |-> workers.url[w], worker |-> w]),
            !.returned[w] = <<own_record(Html(final, site.links[final]), final)>>]
    /\ drivers' = driver_quit(driver_opened(drivers))
    /\ UNCHANGED <<visited_urls, base_url, idle_crawl>>

RaceNext ==
    \E w \in Workers :
        \/ \E url \in WorkerUrls : WCall(w, url)
        \/ WCheck(w)
        \/ WMark(w)
        \/ WCheckAndMark(w)
        \/ WRender(w)

RaceSpec == RaceInit /\ [][RaceNext]_vars

(***************************************************************************)
(* Reading the history.                                                    *)
(***************************************************************************)
Idle == stack = <<>>

\* The driver.get calls made during the k-th client call, in order.
RendersOf(k) == SelectSeq(renders, LAMBDA r : r.call = k)

AllOk(k) == \A i \in 1..Len(renders) : renders[i].call = k => renders[i].ok

\* The k-th client call is the first of its session.
FirstOfSession(k) == \A j \in 1..(k - 1) : calls[j].session # calls[k].session

\* The record extract_data builds for a successful render.
RecordOf(r) == own_record(Html(r.final, site.links[r.final]), r.final)

RecordsOf(rs) == [i \in 1..Len(rs) |-> RecordOf(rs[i])]

\* The render j was made while following links below the page of render i.
RECURSIVE Below(_, _)
Below(i, j) ==
    IF renders[j].parent = 0 THEN FALSE
    ELSE renders[j].parent = i \/ Below(i, renders[j].parent)

(***************************************************************************)
(* C1. Every URL passed to driver.get is in visited_urls when it is        *)
(* passed, and within one session (between two clear_cache calls) no URL   *)
(* is passed to driver.get twice.                                          *)
(***************************************************************************)
C1_MarkedBeforeRenderOnce ==
    /\ \A i \in 1..Len(renders) : renders[i].marked
    /\ \A i, j \in 1..Len(renders) :
          (i # j /\ renders[i].session = renders[j].session)
             => renders[i].url # renders[j].url

\* Two client calls of one session have both rendered pages, and a link to
\* a page rendered earlier in the session has been met.
C1_Witness ==
    /\ Idle
    /\ Len(calls) = 2
    /\ calls[1].session = calls[2].session
    /\ RendersOf(1) # <<>>
    /\ Len(RendersOf(2)) >= 2
    /\ \E i \in 1..Len(renders) :
          /\ renders[i].call = 2 /\ renders[i].ok /\ renders[i].depth > 0
          /\ \E n \in 1..Len(site.links[renders[i].final]) :
                normalize_url(base_url, site.links[renders[i].final][n])
                   = <<renders[1].url>>

(***************************************************************************)
(* C2. In a fresh session, without a prompt and with every render          *)
(* succeeding, scrape(seed, depth=0) on a valid seed returns exactly one   *)
(* record, the seed's, and renders exactly once; and at every depth d >= 0 *)
(* every rendered URL is reached from the seed by following at most d      *)
(* links.                                                                  *)
(***************************************************************************)
C2_DepthBoundary ==
    /\ \A k \in 1..Len(calls) :
          (/\ calls[k].done /\ calls[k].outcome = "go" /\ calls[k].fresh
           /\ calls[k].prompt = NoPrompt /\ AllOk(k) /\ calls[k].depth = 0)
             => /\ Len(RendersOf(k)) = 1
                /\ RendersOf(k)[1].url = normalize_url(<<calls[k].url>>, calls[k].url)[1]
                /\ calls[k].result = <<RecordOf(RendersOf(k)[1])>>
    /\ \A i \in 1..Len(renders) :
          /\ renders[i].hops <= calls[renders[i].call].depth
          /\ renders[i].hops = IF renders[i].parent = 0 THEN 0
                               ELSE renders[renders[i].parent].hops + 1
          /\ renders[i].parent # 0 =>
                /\ renders[i].parent < i
                /\ renders[renders[i].parent].ok
                /\ renders[renders[i].parent].call = renders[i].call
                /\ <<renders[i].url>> =
                     normalize_url(renders[i].base,
                        site.links[renders[renders[i].parent].final][renders[i].link])

\* A depth-0 call on a seed whose page has a same-origin link has returned
\* the seed alone, and a depth-1 call in a fresh session has rendered a page
\* that links to a page never rendered.
C2_Witness ==
    /\ Idle
    /\ Len(calls) = 2
    /\ calls[1].fresh /\ calls[1].prompt = NoPrompt /\ calls[1].depth = 0
    /\ calls[1].outcome = "go" /\ AllOk(1)
    /\ Len(calls[1].result) = 1
    /\ \E n \in 1..Len(site.links[RendersOf(1)[1].final]) :
          follows(<<calls[1].url>>, site.links[RendersOf(1)[1].final][n])
    /\ calls[2].fresh /\ calls[2].prompt = NoPrompt /\ calls[2].depth = 1
    /\ AllOk(2)
    /\ \E i \in 1..Len(renders) :
          /\ renders[i].call = 2 /\ renders[i].hops = 1
          /\ \E n \in 1..Len(site.links[renders[i].final]) :
                LET next_url == normalize_url(base_url, site.links[renders[i].final][n])
                IN /\ follows(base_url, site.links[renders[i].final][n])
                   /\ next_url[1] \notin visited_urls

(***************************************************************************)
(* C3. A link found on a page is rendered only if its normalized URL has   *)
(* the netloc of the session's base URL: no cross-origin link is passed to *)
(* driver.get, at any depth.                                               *)
(***************************************************************************)
C3_LinksStayOnBaseNetloc ==
    \A i \in 1..Len(renders) :
        renders[i].parent # 0 =>
            /\ renders[i].base # <<>>
            /\ renders[i].url.netloc = renders[i].base[1].netloc

\* A call has ended that rendered, with depth left, a page carrying a link
\* to another netloc and a same-origin link after it, which it rendered.
C3_Witness ==
    /\ Idle
    /\ \E i, j \in 1..Len(renders) :
          /\ renders[i].ok /\ renders[i].depth > 0
          /\ renders[j].parent = i
          /\ \E n \in 1..(renders[j].link - 1) :
                LET href == site.links[renders[i].final][n]
                IN /\ normalize_url(renders[i].base, href) # <<>>
                   /\ href.netloc # renders[i].base[1].netloc
                   /\ is_valid_url(href)
                   /\ \A m \in 1..Len(renders) :
                         renders[m].session = renders[i].session
                            => renders[m].url # href

C4_WitnessSameSession ==
    /\ Idle
    /\ Len(calls) = 2
    /\ calls[1].url = calls[2].url
    /\ calls[1].session = calls[2].session
    /\ Len(calls[1].result) >= 2
    /\ calls[2].outcome = "skip" /\ calls[2].depth >= 0

ExtractedBlocks(url) == page_content(PageElements(url), 1)

\* The blocks of a page that is_relevant_to_prompt judges relevant.
RelevantBlocks(blocks, prompt) ==
    SelectSeq(blocks, LAMBDA b : Relevance[b, prompt])

\* C5. Every record of the result of a scrape with a prompt, the seed's and
\* those of the pages below it, carries the score (relevant blocks of the
\* page) / (blocks extracted from the page).
C5_ScoreIsRelevantOverExtracted ==
    \A k \in 1..Len(calls) :
        (calls[k].done /\ calls[k].prompt # <<>>) =>
            \A n \in 1..Len(calls[k].result) :
                LET rec == calls[k].result[n]
                    blocks == ExtractedBlocks(rec.url)
                IN rec.relevance_score =
                     Quotient(Len(RelevantBlocks(blocks, calls[k].prompt)), Len(blocks))

(***************************************************************************)
(* C6. Every record process_results returns for a non-empty prompt has at  *)
(* least one block, holds exactly the relevant blocks of its input page in *)
(* their order, and has 0 < relevance_score <= 1; a page with no relevant  *)
(* block (or no block at all) is not in the output.                        *)
(***************************************************************************)
C6_FilteringInvariant ==
    \A a \in 1..Len(last_filter) :
        LET f == last_filter[a]
            kept == SelectSeq(f.results,
                       LAMBDA pg : RelevantBlocks(pg.content, f.prompt) # <<>>)
        IN /\ f.prompt # <<>>
           /\ Len(f.processed) = Len(kept)
           /\ \A n \in 1..Len(kept) :
                 LET out == f.processed[n]
                 IN /\ out.url = kept[n].url
                    /\ out.title = kept[n].title
                    /\ out.content = RelevantBlocks(kept[n].content, f.prompt)
                    /\ Len(out.content) >= 1
                    /\ out.relevance_score # NoScore
                    /\ 0 < out.relevance_score[1]
                    /\ out.relevance_score[1] <= out.relevance_score[2]

\* process_results was given a page none of whose blocks is relevant, after
\* it a page with relevant blocks, and has returned.
C6_Witness ==
    /\ last_filter # <<>>
    /\ Len(last_filter[1].results) >= 2
    /\ last_filter[1].results[1].content # <<>>
    /\ RelevantBlocks(last_filter[1].results[1].content, last_filter[1].prompt) = <<>>
    /\ Len(last_filter[1].processed) >= 1

(***************************************************************************)
(* C7. When the render of a link's URL fails, that branch adds nothing and *)
(* the enclosing scrape goes on: every same-origin link of every page      *)
(* rendered with depth left is still tried, and without a prompt the       *)
(* result is the records of the pages rendered successfully, in the order  *)
(* of their renders.                                                       *)
(***************************************************************************)
C7_FailureIsolated ==
    \A k \in 1..Len(calls) :
        calls[k].done =>
            /\ calls[k].prompt = NoPrompt =>
                  calls[k].result =
                     RecordsOf(SelectSeq(RendersOf(k), LAMBDA r : r.ok))
            /\ \A i \in 1..Len(renders) :
                  (renders[i].call = k /\ renders[i].ok /\ renders[i].depth > 0) =>
                     \A n \in 1..Len(site.links[renders[i].final]) :
                        LET href == site.links[renders[i].final][n]
                            next_url == normalize_url(renders[i].base, href)
                        IN (follows(renders[i].base, href) /\ is_valid_url(next_url[1]))
                              => \E m \in 1..Len(renders) :
                                    /\ renders[m].session = renders[i].session
                                    /\ renders[m].url = next_url[1]

\* A call has ended in which the render of one link failed and a later link
\* of the same page was rendered, and the result holds the page's record
\* and the later link's.
C7_Witness ==
    /\ Idle
    /\ \E i, j \in 1..Len(renders) :
          /\ ~renders[i].ok /\ renders[j].ok
          /\ renders[i].parent # 0 /\ renders[j].parent = renders[i].parent
          /\ renders[i].link < renders[j].link
          /\ calls[renders[i].call].prompt = NoPrompt
          /\ Len(calls[renders[i].call].result) >= 2

(***************************************************************************)
(* C8. At the top-level call, "no pages because the prompt matched         *)
(* nothing" and "no pages because the seed URL was invalid" give the       *)
(* caller distinct signals.                                                *)
(***************************************************************************)
\* The k-th client call returned at lines 284-286.
InvalidSeed(k) == calls[k].done /\ calls[k].outcome = "invalid"

\* The k-th client call rendered its seed and filtered every page away.
MatchedNothing(k) ==
    /\ calls[k].done /\ calls[k].outcome = "go"
    /\ calls[k].prompt # <<>>
    /\ RendersOf(k) # <<>> /\ RendersOf(k)[1].ok
    /\ calls[k].result = <<>>

\* What a call hands its caller: scrape has no path that raises, so the
\* returned list is all of it.
Signal(k) == calls[k].result

\* C8. A client's call that ended on an invalid seed and one whose prompt
\* matched nothing hand the caller different signals.
C8_DistinctSignals ==
    \A j, k \in 1..Len(calls) :
        (InvalidSeed(j) /\ MatchedNothing(k)) => Signal(j) # Signal(k)

\* What the code does for C8: both outcomes return the same empty list, and
\* only the session tells them apart: after the call the seed's normalized
\* URL is in visited_urls when the prompt matched nothing, and is not when
\* the seed was invalid.
C8_SameSignalVisitedDiffers ==
    \A k \in 1..Len(calls) :
        LET norm == normalize_url(base_url, calls[k].url)
            latest == k = Len(calls) /\ calls[k].session = session
        IN /\ InvalidSeed(k) =>
                /\ Signal(k) = <<>>
                /\ latest => (norm = <<>> \/ norm[1] \notin visited_urls)
           /\ MatchedNothing(k) =>
                /\ Signal(k) = <<>>
                /\ latest => (norm # <<>> /\ norm[1] \in visited_urls)

\* One call has ended on an invalid seed and one with every page filtered
\* away.
C8_Witness ==
    /\ Idle
    /\ Len(calls) = 2
    /\ InvalidSeed(1)
    /\ MatchedNothing(2)
    /\ calls[2].session = session

(***************************************************************************)
(* C9. scrape(seed, depth=d) terminates, and makes at most                 *)
(* min(number of same-origin URLs reachable from the seed, b^d) renders,   *)
(* b the largest number of links on a page.                                *)
(***************************************************************************)
Min(a, b) == IF a <= b THEN a ELSE b

RECURSIVE Pow(_, _)
Pow(b, d) == IF d <= 0 THEN 1 ELSE b * Pow(b, d - 1)

\* 1 + b + ... + b^d
RECURSIVE Geometric(_, _)
Geometric(b, d) == IF d <= 0 THEN 1 ELSE Pow(b, d) + Geometric(b, d - 1)

\* The largest number of links on a page of the site.
Branching ==
    LET counts == {Len(site.links[u]) : u \in PageUrls}
    IN CHOOSE c \in counts : \A e \in counts : e <= c

\* The URLs one link away from the pages of a set of URLs, for a session
\* whose base URL is base.
LinkedFrom(base, urls) ==
    UNION {{normalize_url(base, site.links[site.redirect[u]][n])[1] :
               n \in 1..Len(site.links[site.redirect[u]])} : u \in urls}
      \cap {u \in PageUrls : is_same_domain(base, u)}

RECURSIVE Closure(_, _)
Closure(base, urls) ==
    LET more == urls \cup LinkedFrom(base, urls)
    IN IF more = urls THEN urls ELSE Closure(base, more)

\* The seed and the same-origin URLs reachable from it.
Reachable(base, seed) == Closure(base, {seed})

RenderCountWithin(k, limit(_, _, _)) ==
    (calls[k].done /\ calls[k].outcome = "go") =>
        LET first == RendersOf(k)[1]
        IN Len(RendersOf(k)) <= limit(first.base, first.url, calls[k].depth)

\* C9, the bound as stated: a call that has ended made at most
\* min(reachable URLs, b^d) renders.
C9_BoundPowerOfBranching ==
    \A k \in 1..Len(calls) :
        RenderCountWithin(k, LAMBDA base, seed, d :
            Min(Cardinality(Reachable(base, seed)), Pow(Branching, d)))

\* C9, the bound with every level of the crawl counted: at most
\* min(reachable URLs, 1 + b + ... + b^d) renders.
C9_BoundGeometric ==
    \A k \in 1..Len(calls) :
        RenderCountWithin(k, LAMBDA base, seed, d :
            Min(Cardinality(Reachable(base, seed)), Geometric(Branching, d)))

\* C9 as amended: scrape(seed, depth=d) terminates, and makes at most
\* min(number of URLs among the seed and the same-origin URLs reachable from
\* it, 1 + b + ... + b^d) renders. A call that terminates leaves the client
\* idle: the client is idle again and again.
C9_TerminatesWithinGeometricBound ==
    /\ []C9_BoundGeometric
    /\ []<>Idle

\* A call has ended that made more than b^d renders.
C9_Witness ==
    /\ Idle
    /\ \E k \in 1..Len(calls) :
          /\ calls[k].outcome = "go"
          /\ Len(RendersOf(k)) > Pow(Branching, calls[k].depth)
          /\ Len(RendersOf(k)) = Geometric(Branching, calls[k].depth)

(***************************************************************************)
(* C10. Without a prompt and with every render succeeding, the list scrape *)
(* returns is the depth-first pre-order of the pages rendered: the seed's  *)
(* record first, then for each followed link, in document order, the whole *)
(* sub-result of the link before any record of the next link.              *)
(***************************************************************************)
C10_DepthFirstPreorder ==
    /\ \A k \in 1..Len(calls) :
          (/\ calls[k].done /\ calls[k].outcome = "go"
           /\ calls[k].prompt = NoPrompt /\ AllOk(k))
             => calls[k].result = RecordsOf(RendersOf(k))
    /\ \A i, j \in 1..Len(renders) :
          (i < j /\ renders[i].call = renders[j].call) =>
             /\ renders[j].parent # 0
             /\ renders[i].parent = renders[j].parent
                   => renders[i].link < renders[j].link
             /\ \A l \in (j + 1)..Len(renders) : Below(i, l) => Below(i, j)

\* A call without prompt has ended, every render succeeding, in which a
\* link's page, a page below it and then the next link's page were rendered.
C10_Witness ==
    /\ Idle
    /\ \E i, j, l \in 1..Len(renders) :
          /\ i < j /\ j < l
          /\ renders[j].parent = i
          /\ renders[i].parent # 0
          /\ renders[l].parent = renders[i].parent
          /\ calls[renders[i].call].prompt = NoPrompt
          /\ AllOk(renders[i].call)
          /\ Len(calls[renders[i].call].result) = Len(RendersOf(renders[i].call))

(***************************************************************************)
(* C11. A scrape call whose URL normalizes to None or fails validation     *)
(* returns an empty result without raising, renders nothing, and does not  *)
(* add the URL to visited_urls.                                            *)
(***************************************************************************)
\* The step just taken is a call of scrape that left its entry this way.
Entered(outcomes) ==
    /\ Len(entries') = Len(entries) + 1
    /\ entries'[Len(entries')].outcome \in outcomes

\* The call of scrape just made has returned [] to its caller: to the client,
\* or to the loop of extract_data, which extends data by nothing.
ReturnedEmpty ==
    IF entries'[Len(entries')].nested
    THEN /\ Len(stack') = Len(stack)
         /\ stack'[Len(stack')].data = Top.data
         /\ calls' = calls
    ELSE /\ stack' = <<>>
         /\ calls'[Len(calls')].done
         /\ calls'[Len(calls')].result = <<>>

\* C11. Every scrape call that ends on an invalid URL returns [], makes no
\* render and leaves visited_urls as it was, its own URL not in it.
C11_InvalidUrlBranch ==
    [][Entered({"invalid"}) =>
          LET norm == normalize_url(base_url', entries'[Len(entries')].url)
          IN /\ norm = <<>> \/ ~is_valid_url(norm[1])
             /\ ReturnedEmpty
             /\ renders' = renders
             /\ visited_urls' = visited_urls
             /\ norm # <<>> => norm[1] \notin visited_urls'
             /\ \A u \in visited_urls' : is_valid_url(u)]_vars

\* A client's call and a recursive call have both ended on an invalid URL,
\* one of them a URL that is not empty.
C11_Witness ==
    /\ Idle
    /\ \E i, j \in 1..Len(entries) :
          /\ entries[i].outcome = "invalid" /\ ~entries[i].nested
          /\ entries[j].outcome = "invalid" /\ entries[j].nested
          /\ entries[j].url # EmptyUrl
    /\ renders # <<>>

(***************************************************************************)
(* C12. For non-empty preprocessed text and prompt is_relevant_to_prompt   *)
(* returns true iff one of the three methods fires; an exception in the    *)
(* statistical method counts as 'did not fire' and the decision is that of *)
(* methods 2 and 3; if either preprocessed string is empty the result is   *)
(* false.                                                                  *)
(***************************************************************************)
\* C12. The value is_relevant_to_prompt returns is a Boolean: FALSE when a
\* string is empty after preprocessing, otherwise TRUE exactly when a method
\* fired, and the keyword methods' decision when fit_transform raised.
C12_TieredDecision ==
    (probe.op = "is_relevant_to_prompt" /\ probe.done) =>
        LET r == probe.result
        IN /\ r.returned \in BOOLEAN
           /\ ~r.reached => r.returned = FALSE
           /\ r.reached =>
                 r.returned = (r.tfidf = "hit" \/ r.keyword \/ r.partial)
           /\ (r.reached /\ r.tfidf = "raise") =>
                 r.returned = (r.keyword \/ r.partial)

\* fit_transform raised on a text and a prompt made of the vectorizer's stop
\* words, and the keyword overlap made the text relevant.
C12_Witness ==
    /\ probe.op = "is_relevant_to_prompt"
    /\ probe.done
    /\ probe.result.reached
    /\ probe.result.tfidf = "raise"
    /\ probe.result.keyword
    /\ probe.result.returned

(***************************************************************************)
(* C13. The combined decision of the keyword-overlap method and the        *)
(* partial-match method is the same when text and prompt are exchanged.    *)
(***************************************************************************)
\* C13. Lines 124-139 decide the same for (text, prompt) and (prompt, text).
C13_LexicalTiersSymmetric ==
    (probe.op = "lexical_tiers" /\ probe.done) =>
        probe.result.as_given = probe.result.exchanged

\* The methods fired on a partial match alone: a word of the text inside a
\* longer word of the prompt.
C13_Witness ==
    /\ probe.op = "lexical_tiers"
    /\ probe.done
    /\ probe.text = S_insight
    /\ probe.prompt = S_insights
    /\ probe.result.as_given
    /\ ~keyword_tier(probe.text, probe.prompt)

(***************************************************************************)
(* C15. An element's stripped text is part of the page's content iff it    *)
(* is longer than 20 characters: 20 characters are left out, 21 are kept.  *)
(***************************************************************************)
\* The stripped texts of the elements extract_data looks at.
Candidates(elements) ==
    {Strip(elements[i].text) :
        i \in {j \in 1..Len(elements) : elements[j].tag \in Range(ContentTags)}}

\* C15. The content of the record holds exactly the stripped texts, of the
\* elements with a content tag, that are longer than 20 characters.
C15_LengthBoundary ==
    (probe.op = "extract_data" /\ probe.done) =>
        /\ Range(probe.result) = {text \in Candidates(probe.elements) : Len(text) > 20}
        /\ \A text \in Candidates(probe.elements) :
              /\ Len(text) = 20 => text \notin Range(probe.result)
              /\ Len(text) = 21 => text \in Range(probe.result)

\* A page with a padded text of 21 characters, kept, and a text of 20,
\* left out.
C15_Witness ==
    /\ probe.op = "extract_data"
    /\ probe.done
    /\ probe.elements = <<Element("table", Pad(T_21)), Element("h1", T_short)>>
    /\ Len(T_21) = 21 /\ Len(T_short) = 20
    /\ probe.result = <<T_21>>

(***************************************************************************)
(* C14. Once a scrape call has fixed the session's base URL, no later      *)
(* scrape call of the session, recursive or a client's with another seed,  *)
(* changes it; only clear_cache resets it.                                 *)
(***************************************************************************)
\* C14. A base URL that is set (not None, not '') changes in one way only:
\* clear_cache makes it None.
C14_BaseUrlFixed ==
    [][(~Unset(base_url) /\ base_url' # base_url) =>
          (base_url' = <<>> /\ session' = session + 1 /\ entries' = entries)]_vars

\* Two client calls of one session with different seeds have ended, links
\* were followed, and the base URL is the first seed.
C14_Witness ==
    /\ Idle
    /\ Len(calls) = 2
    /\ calls[1].session = calls[2].session
    /\ calls[1].url = UrlA0
    /\ calls[2].url = UrlB0
    /\ calls[2].outcome = "go"
    /\ \E i \in 1..Len(entries) : entries[i].nested
    /\ base_url = <<UrlA0>>

(***************************************************************************)
(* C16. The visited check and the visited insertion are separate steps, so *)
(* with two interleaved scrape calls on one session a state is reachable   *)
(* in which one URL has been rendered twice; with check-and-mark as one    *)
(* indivisible action the state is not reachable.                          *)
(***************************************************************************)
\* Renders i < j of the log are of one URL.
SameUrlTwice(i, j) ==
    /\ i < j
    /\ workers.log[i].url = workers.log[j].url

\* C16. A URL is rendered twice only by two different threads, and only
\* when check and insertion are separate steps: never when they are one.
C16_TwiceOnlyByRace ==
    \A i, j \in 1..Len(workers.log) :
        SameUrlTwice(i, j) =>
            /\ ~workers.atomic
            /\ workers.log[i].worker # workers.log[j].worker

\* With separate steps, both threads have rendered the same URL.
C16_Witness ==
    /\ ~workers.atomic
    /\ \E i, j \in 1..Len(workers.log) : SameUrlTwice(i, j)
    /\ \A w \in Workers : workers.pc[w] = "idle"

(***************************************************************************)
(* C17. In a fresh session with every render succeeding, scrape(seed,      *)
(* depth=d) renders every same-origin URL whose shortest link distance     *)
(* from the seed is at most d.                                             *)
(***************************************************************************)
\* The URLs at most d links away from the URLs of a set.
RECURSIVE Within(_, _, _)
Within(base, urls, d) ==
    IF d <= 0 THEN urls
    ELSE Within(base, urls \cup LinkedFrom(base, urls), d - 1)

\* C17. A call that started a fresh session on a site where no render
\* fails has rendered every URL at most depth links away from its seed.
C17_RendersAllWithinDepth ==
    \A k \in 1..Len(calls) :
        (calls[k].done /\ calls[k].outcome = "go" /\ calls[k].fresh
           /\ site.down = {}) =>
            LET first == RendersOf(k)[1]
            IN \A u \in Within(first.base, {first.url}, calls[k].depth) :
                  \E n \in 1..Len(RendersOf(k)) : RendersOf(k)[n].url = u

(***************************************************************************)
(* C18. A scrape call that ends early without rendering (invalid URL,      *)
(* visited URL, depth < 0) leaves the session as it was: visited_urls and  *)
(* the base URL are the same after the call as before it.                  *)
(***************************************************************************)
\* Two values of base_url that scrape treats alike: the same value, or two
\* falsy ones (None and '').
SameBase(a, b) == a = b \/ (Unset(a) /\ Unset(b))

\* C18. A call of scrape that leaves its entry at line 286 or line 290
\* changes neither visited_urls nor the base URL.
C18_EarlyReturnChangesNothing ==
    [][Entered({"invalid", "skip"}) =>
          (visited_urls' = visited_urls /\ SameBase(base_url', base_url))]_vars

(***************************************************************************)
(* C19. In a fresh session over the same site scrape(url, prompt, d) makes *)
(* the same sequence of render calls as scrape(url, no prompt, d), and its *)
(* pages and blocks (urls, titles, kept blocks, order) are those of one    *)
(* application of process_results to the result without prompt.            *)
(***************************************************************************)
\* Records without their scores.
Unscored(rs) ==
    [i \in 1..Len(rs) |->
        [url |-> rs[i].url, title |-> rs[i].title, content |-> rs[i].content]]

RenderedUrls(k) == [n \in 1..Len(RendersOf(k)) |-> RendersOf(k)[n].url]

\* Call j without a prompt and call k with one, each the first of a fresh
\* session, with the same URL and depth, have both returned.
SameCrawlWithAndWithout(j, k) ==
    /\ calls[j].done /\ calls[k].done
    /\ calls[j].fresh /\ calls[k].fresh
    /\ calls[j].prompt = <<>> /\ calls[k].prompt # <<>>
    /\ calls[j].url = calls[k].url
    /\ calls[j].depth = calls[k].depth

\* C19. The two calls rendered the same URLs in the same order, and the
\* result with the prompt is, scores aside, process_results applied once
\* to the result without.
C19_FilterKeepsTraversal ==
    \A j, k \in 1..Len(calls) :
        SameCrawlWithAndWithout(j, k) =>
            /\ RenderedUrls(k) = RenderedUrls(j)
            /\ Unscored(calls[k].result)
                 = Unscored(process_results(calls[j].result, calls[k].prompt))

\* Both calls followed links two levels down, and the prompt removed a page
\* and kept a page below the seed.
C19_Witness ==
    \E j, k \in 1..Len(calls) :
        /\ SameCrawlWithAndWithout(j, k)
        /\ calls[k].depth >= 2
        /\ Len(RendersOf(k)) >= 3
        /\ Len(calls[k].result) >= 2
        /\ Len(calls[k].result) < Len(calls[j].result)

(***************************************************************************)
(* C20. No two records of the result of one scrape call carry the same     *)
(* url, whatever the link graph and the redirects of the browser.          *)
(***************************************************************************)
\* C20. The records of a returned result have pairwise different urls.
C20_ResultUrlsDistinct ==
    \A k \in 1..Len(calls) :
        calls[k].done =>
            \A m, n \in 1..Len(calls[k].result) :
                m # n => calls[k].result[m].url # calls[k].result[n].url

-----------------------------------------------------------------------------
\* C21: at every point of a crawl at most one browser driver instance is
\* open, and every driver opened by scrape has been quit by the time that
\* scrape call returns, on the success path and on the render-failure path
\* alike.  Between two steps of the crawl no driver may be left open at all,
\* because lines 297-310 open and quit the driver inside one render; so the
\* statement is: never more than one driver at a time, and none open once
\* the client is idle again.
C21_OneDriverQuitOnReturn ==
    /\ drivers.peak <= 1
    /\ Idle => drivers.open = 0

\* The first half alone: two browsers are never open at the same time.
C21_AtMostOneDriver == drivers.peak <= 1

\* A scrape call whose render failed has returned, and its driver is open.
C21_DriverLeftOpen ==
    /\ Idle
    /\ renders # <<>>
    /\ ~renders[Len(renders)].ok
    /\ drivers.open > 0

====
